---- MODULE Spec2Model ----
(***************************************************************************)
(* Model of the fraud-explanation engine of ITS-RSBP-FP:                   *)
(*   app/services/graph_service.py  GraphService.run_gds_pipeline          *)
(*   app/services/fraud_rules.py    FraudRules.{detect_fan_in,             *)
(*                                  detect_circular_flow, get_gds_scores,  *)
(*                                  explain_fraud}                         *)
(*   app/routers/investigation.py   POST /investigation/run-gds            *)
(* The graph store (Neo4j + GDS) is the shared state.  Every session.run   *)
(* is one auto-commit statement, hence one atomic step of the model.       *)
(***************************************************************************)
EXTENDS Integers, FiniteSets, Sequences, TLC

(***************************************************************************)
(* Property values.  Every value is a pair <<tag, n>> so that values of    *)
(* different Python/Cypher types can be compared.                          *)
(***************************************************************************)
Null == <<"null", 0>>
IntV(n) == <<"int", n>>
BoolV(b) == <<"bool", IF b THEN 1 ELSE 0>>
StrNA == <<"str:N/A", 0>>
\* the value gds.louvain.write / gds.pageRank.write of run r stores on a node
CommunityOf(r) == <<"community", r>>
RankOf(r) == <<"rank", r>>

\* Python truthiness of a returned value (None, False, 0 are falsy)
Truthy(v) == v # Null /\ v # BoolV(FALSE) /\ v # IntV(0)
\* Python `v == 1` (True == 1 holds in Python)
PyEq1(v) == v = IntV(1) \/ v = BoolV(TRUE)
\* Cypher coalesce(v, false)
Coalesce(v, d) == IF v = Null THEN d ELSE v

\* a Python dict as a set of <<key, value>> pairs
EmptyDict == {}
Get(d, k) == (CHOOSE p \in d : p[1] = k)[2]

(***************************************************************************)
(* Bounds                                                                  *)
(***************************************************************************)
\* pipeline runs started in one behaviour
MaxRuns == 2

\* processes serving requests against the one shared store.  The handlers
\* are `async def` with blocking calls, so one process serves one request
\* at a time; nothing in the code couples two processes.
Workers == {"w1", "w2"}

\* the (:Client) nodes and the [:TRANSACTED] edges of the store
Clients == {"c1", "c2", "c3"}
TxIds == {"t1", "t2"}
\* identifiers a caller may ask about; "t9" matches no edge
QueryIds == TxIds \cup {"t9"}
Sender(t) == IF t = "t1" THEN "c1" ELSE "c2"
Receiver(t) == IF t = "t1" THEN "c2" ELSE "c3"

IsFraudValues == {Null, IntV(0), IntV(1), BoolV(FALSE), BoolV(TRUE)}
RuleFlagValues == {Null, BoolV(FALSE), BoolV(TRUE)}

VARIABLES
    isFraud,        \* t.isFraud of every TRANSACTED edge
    ruleFlagged,    \* t.ruleFlaggedFraud of every TRANSACTED edge
    communityId,    \* n.communityId of every node
    rankScore,      \* n.rankScore of every node
    pagerankScore,  \* n.pagerankScore of every node
    catalog,        \* GDS graph catalog: projections named 'fraud_graph'
    pc,             \* position of every worker
    run,            \* the run a worker is executing (0: none)
    held,           \* explain_fraud: the record fetched by the first query
    resp,           \* what the last finished call of a worker returned
    runs,           \* pipeline runs started so far
    epoch,          \* writes to node properties so far
    ledger,         \* the (:Account)-[:TRANSACTION]->(:Account) edges
    alert           \* what the last detector call returned

vars == <<isFraud, ruleFlagged, communityId, rankScore, pagerankScore,
          catalog, pc, run, held, resp, runs, epoch, ledger, alert>>

store == <<isFraud, ruleFlagged, communityId, rankScore, pagerankScore, catalog>>

\* the state of the explanation and pipeline paths
enginevars == <<store, pc, run, held, resp, runs, epoch>>
\* the state the two pattern detectors read and return
detectorvars == <<ledger, alert>>

(***************************************************************************)
(* fraud_rules.py: the read path                                           *)
(***************************************************************************)
\* MATCH (s:Client)-[t:TRANSACTED {txId: $txId}]->(r:Client): result.single()
Matches(txId) == txId \in TxIds

\* the record get_gds_scores' query returns for an edge that exists
ScoresRecord(txId) ==
    { <<"sender_rank", pagerankScore[Sender(txId)]>>,
      <<"sender_community", communityId[Sender(txId)]>>,
      <<"receiver_rank", pagerankScore[Receiver(txId)]>>,
      <<"receiver_community", communityId[Receiver(txId)]>> }

Sentinel ==
    { <<"sender_rank", IntV(0)>>,
      <<"receiver_rank", IntV(0)>>,
      <<"sender_community", StrNA>>,
      <<"receiver_community", StrNA>> }

\* get_gds_scores: `if record: return dict(record)`, else the sentinel.  A
\* neo4j Record with four fields is truthy whatever its values are.
GetGdsScoresResult(txId) ==
    IF Matches(txId) THEN ScoresRecord(txId) ELSE Sentinel

\* the record explain_fraud's first query returns for an edge that exists
FactsRecord(txId) ==
    { <<"isFraud", isFraud[txId]>>,
      <<"ruleFlaggedFraud", Coalesce(ruleFlagged[txId], BoolV(FALSE))>> }

\* explain_fraud: `if record["isFraud"] == 1 or record["ruleFlaggedFraud"]`
VerdictAnd(rec) ==
    IF PyEq1(Get(rec, "isFraud")) /\ Truthy(Get(rec, "ruleFlaggedFraud"))
    THEN "FRAUD" ELSE "CLEARED"
Verdict(rec) ==
    IF PyEq1(Get(rec, "isFraud")) \/ Truthy(Get(rec, "ruleFlaggedFraud"))
    THEN "FRAUD" ELSE "CLEARED"

ExplanationOf(status) ==
    CASE status = "FRAUD" -> "Transaction matches fraud indicators."
      [] status = "CLEARED" -> "No specific fraud patterns detected."
      [] OTHER -> "Transaction ID not found in graph."

NoResp ==
    [op |-> "none", tx |-> "", status |-> "", explanation |-> "",
     data |-> EmptyDict, gds |-> EmptyDict, lookups |-> 0,
     e1 |-> 0, e2 |-> 0, run |-> 0, stage |-> "", cause |-> ""]

\* get_gds_scores called on its own
GetGdsScores(w, txId) ==
    /\ UNCHANGED detectorvars
    /\ pc[w] = "idle"
    /\ resp' = [resp EXCEPT ![w] =
          [NoResp EXCEPT !.op = "scores", !.tx = txId,
                         !.gds = GetGdsScoresResult(txId), !.lookups = 1,
                         !.e1 = epoch, !.e2 = epoch]]
    /\ UNCHANGED <<store, pc, run, held, runs, epoch>>

\* explain_fraud with the score lookup made before the `if not record` test
ExplainLookupEager(w, txId) ==
    /\ UNCHANGED detectorvars
    /\ pc[w] = "idle"
    /\ IF Matches(txId)
       THEN /\ pc' = [pc EXCEPT ![w] = "scores"]
            /\ held' = [held EXCEPT ![w] =
                  [tx |-> txId, rec |-> {}, e1 |-> epoch]]
            /\ resp' = [resp EXCEPT ![w] =
                  [op |-> "none", tx |-> "", status |-> "", explanation |-> "",
                   data |-> {}, gds |-> {}, lookups |-> 0,
                   e1 |-> 0, e2 |-> 0, run |-> 0, stage |-> "", cause |-> ""]]
       ELSE /\ resp' = [resp EXCEPT ![w] =
                  [op |-> "explain", tx |-> txId, status |-> "NOT_FOUND",
                   explanation |-> "Transaction ID not found in graph.",
                   data |-> {}, gds |-> GetGdsScoresResult(txId), lookups |-> 1,
                   e1 |-> epoch, e2 |-> epoch, run |-> 0, stage |-> "",
                   cause |-> ""]]
            /\ UNCHANGED <<pc, held>>
    /\ UNCHANGED <<store, run, runs, epoch>>

\* explain_fraud, first session: the lookup of the transaction's facts.
\* `if not record` returns NOT_FOUND without calling get_gds_scores.
ExplainLookup(w, txId) ==
    /\ UNCHANGED detectorvars
    /\ pc[w] = "idle"
    /\ IF Matches(txId)
       THEN /\ pc' = [pc EXCEPT ![w] = "scores"]
            /\ held' = [held EXCEPT ![w] =
                  [tx |-> txId, rec |-> FactsRecord(txId), e1 |-> epoch]]
            /\ resp' = [resp EXCEPT ![w] = NoResp]
       ELSE /\ resp' = [resp EXCEPT ![w] =
                  [NoResp EXCEPT !.op = "explain", !.tx = txId,
                                 !.status = "NOT_FOUND",
                                 !.explanation = ExplanationOf("NOT_FOUND"),
                                 !.gds = EmptyDict,
                                 !.e1 = epoch, !.e2 = epoch]]
            /\ UNCHANGED <<pc, held>>
    /\ UNCHANGED <<store, run, runs, epoch>>

NoHeld == [tx |-> "", rec |-> EmptyDict, e1 |-> 0]

\* explain_fraud, second session: get_gds_scores, then the verdict
ExplainScores(w) ==
    /\ UNCHANGED detectorvars
    /\ pc[w] = "scores"
    /\ LET h == held[w]
           status == Verdict(h.rec)
       IN resp' = [resp EXCEPT ![w] =
              [NoResp EXCEPT !.op = "explain", !.tx = h.tx,
                             !.status = status,
                             !.explanation = ExplanationOf(status),
                             !.data = h.rec,
                             !.gds = GetGdsScoresResult(h.tx),
                             !.lookups = 1,
                             !.e1 = h.e1, !.e2 = epoch]]
    /\ pc' = [pc EXCEPT ![w] = "idle"]
    /\ held' = [held EXCEPT ![w] = NoHeld]
    /\ UNCHANGED <<store, run, runs, epoch>>

(***************************************************************************)
(* graph_service.py: run_gds_pipeline, one action per session.run, and the *)
(* router's try/except around it                                           *)
(***************************************************************************)
\* the router's `except Exception as e: return {"status": "error", ...}`;
\* the exception leaves run_gds_pipeline at the failing statement, so no
\* later statement of the run executes
Fail(w, stage, cause) ==
    /\ pc' = [pc EXCEPT ![w] = "idle"]
    /\ resp' = [resp EXCEPT ![w] =
          [NoResp EXCEPT !.op = "run", !.status = "error", !.run = run[w],
                         !.stage = stage, !.cause = cause,
                         !.e1 = epoch, !.e2 = epoch]]
    /\ run' = [run EXCEPT ![w] = 0]

\* CALL gds.graph.drop(name, false): failIfMissing = false
DropStrict(c) == [ok |-> c > 0, catalog |-> 0, cause |-> "missing"]
DropOutcome(c) == [ok |-> TRUE, catalog |-> 0, cause |-> ""]

\* CALL gds.graph.project(name, ...): GDS rejects a name the catalog holds
CreateOutcome(c) ==
    IF c > 0 THEN [ok |-> FALSE, catalog |-> c, cause |-> "exists"]
             ELSE [ok |-> TRUE, catalog |-> c + 1, cause |-> ""]

\* statement 1: the request starts a run and drops the projection
DropStep(w) ==
    /\ UNCHANGED detectorvars
    /\ pc[w] = "idle"
    /\ runs < MaxRuns
    /\ runs' = runs + 1
    /\ held' = held
    /\ \E up \in BOOLEAN :
         LET o == DropOutcome(catalog) IN
         IF up /\ o.ok
         THEN /\ catalog' = o.catalog
              /\ pc' = [pc EXCEPT ![w] = "create"]
              /\ run' = [run EXCEPT ![w] = runs + 1]
              /\ resp' = [resp EXCEPT ![w] = NoResp]
         ELSE /\ catalog' = catalog
              /\ pc' = pc
              /\ run' = run
              /\ resp' = [resp EXCEPT ![w] =
                    [NoResp EXCEPT !.op = "run", !.status = "error",
                                   !.run = runs + 1, !.stage = "drop",
                                   !.cause = IF up THEN o.cause ELSE "store",
                                   !.e1 = epoch, !.e2 = epoch]]
    /\ UNCHANGED <<isFraud, ruleFlagged, communityId, rankScore,
                   pagerankScore, epoch>>

\* statement 2: create the projection
CreateStep(w) ==
    /\ UNCHANGED detectorvars
    /\ pc[w] = "create"
    /\ \E up \in BOOLEAN :
         LET o == CreateOutcome(catalog) IN
         IF up /\ o.ok
         THEN /\ catalog' = o.catalog
              /\ pc' = [pc EXCEPT ![w] = "louvain"]
              /\ UNCHANGED <<resp, run>>
         ELSE /\ catalog' = catalog
              /\ Fail(w, "create", IF up THEN o.cause ELSE "store")
    /\ UNCHANGED <<isFraud, ruleFlagged, communityId, rankScore,
                   pagerankScore, held, runs, epoch>>

\* statement 3: gds.louvain.write(name, {writeProperty: 'communityId'})
LouvainStep(w) ==
    /\ UNCHANGED detectorvars
    /\ pc[w] = "louvain"
    /\ \E up \in BOOLEAN :
         IF up /\ catalog > 0
         THEN /\ communityId' = [n \in Clients |-> CommunityOf(run[w])]
              /\ epoch' = epoch + 1
              /\ pc' = [pc EXCEPT ![w] = "pagerank"]
              /\ UNCHANGED <<resp, run>>
         ELSE /\ UNCHANGED <<communityId, epoch>>
              /\ Fail(w, "louvain", IF up THEN "missing" ELSE "store")
    /\ UNCHANGED <<isFraud, ruleFlagged, rankScore, pagerankScore,
                   catalog, held, runs>>

\* statement 4: gds.pageRank.write(name, {..., writeProperty: 'rankScore'});
\* the run returns and the router answers success
PageRankStep(w) ==
    /\ UNCHANGED detectorvars
    /\ pc[w] = "pagerank"
    /\ \E up \in BOOLEAN :
         IF up /\ catalog > 0
         THEN /\ rankScore' = [n \in Clients |-> RankOf(run[w])]
              /\ pagerankScore' = pagerankScore
              /\ epoch' = epoch + 1
              /\ pc' = [pc EXCEPT ![w] = "idle"]
              /\ resp' = [resp EXCEPT ![w] =
                    [NoResp EXCEPT !.op = "run", !.status = "success",
                                   !.run = run[w],
                                   !.e1 = epoch + 1, !.e2 = epoch + 1]]
              /\ run' = [run EXCEPT ![w] = 0]
         ELSE /\ UNCHANGED <<rankScore, pagerankScore, epoch>>
              /\ Fail(w, "pagerank", IF up THEN "missing" ELSE "store")
    /\ UNCHANGED <<isFraud, ruleFlagged, communityId, catalog, held, runs>>

(***************************************************************************)
(* fraud_rules.py: the two pattern detectors.  An edge of the ledger is    *)
(* [id, s, r, ts]: sender s, receiver r, ts = Minutes(n) or Null.          *)
(***************************************************************************)
Minutes(n) == <<"minutes", n>>

DefaultMinSenders == 5
DefaultTimeWindow == 60
MinHops == 1
MaxHops == 4

\* Cypher comparison of two timestamps: null when either is null, and a
\* WHERE keeps a row only when its predicate is true
TsGeq(x, y) == x # Null /\ y # Null /\ x[2] >= y[2]
TsLeq(x, y) == x # Null /\ y # Null /\ x[2] <= y[2]
\* current_tx.timestamp - duration({minutes: $time_window})
MinusMinutes(x, w) == IF x = Null THEN Null ELSE Minutes(x[2] - w)

\* WHERE t.timestamp >= current_tx.timestamp - duration(...)
\*   AND t.timestamp <= current_tx.timestamp
InWindow(t, cur, w) ==
    /\ TsGeq(t.ts, MinusMinutes(cur.ts, w))
    /\ TsLeq(t.ts, cur.ts)

\* count(distinct other_sender) over the rows of one receiver
CountDistinctSenders(rows) == Cardinality({t.s : t \in rows})

\* WHERE distinct_senders > $min_senders
FiresAtThreshold(n, minSenders) == n >= minSenders
FanInFires(n, minSenders) == n > minSenders

\* the rows detect_fan_in's query returns: one per receiver of an edge with
\* the queried id whose window holds some edge, kept when the count passes
FanInRows(L, txId, minSenders, w) ==
    LET receivers == {cur.r : cur \in {c \in L : c.id = txId}}
        rowsOf(rcv) ==
            {t \in L : /\ t.r = rcv
                       /\ \E cur \in L : /\ cur.id = txId
                                         /\ cur.r = rcv
                                         /\ InWindow(t, cur, w)}
    IN {CountDistinctSenders(rowsOf(rcv)) :
           rcv \in {x \in receivers :
                      /\ rowsOf(x) # {}
                      /\ FanInFires(CountDistinctSenders(rowsOf(x)), minSenders)}}

NoAlert == [op |-> "none", tx |-> "", minSenders |-> 0, window |-> 0,
            fired |-> FALSE, n |-> 0]

\* detect_fan_in: record = result.single(); the alert text carries
\* record['distinct_senders'] and time_window_minutes
DetectFanIn(txId, minSenders, w) ==
    /\ LET rows == FanInRows(ledger, txId, minSenders, w) IN
       IF rows # {}
       THEN \E n \in rows :
              alert' = [op |-> "fan_in", tx |-> txId, minSenders |-> minSenders,
                        window |-> w, fired |-> TRUE, n |-> n]
       ELSE alert' = [op |-> "fan_in", tx |-> txId, minSenders |-> minSenders,
                      window |-> w, fired |-> FALSE, n |-> 0]
    /\ UNCHANGED <<ledger, enginevars>>

\* the edges of a path, as a set
EdgesOf(p) == {p[i] : i \in 1..Len(p)}

\* (b)-[:TRANSACTION*k]->(..): the paths of k edges out of b.  Cypher never
\* binds one relationship twice within one MATCH pattern.
RECURSIVE PathsFrom(_, _, _)
PathsFrom(L, b, k) ==
    IF k = 1
    THEN {<<e>> : e \in {x \in L : x.s = b}}
    ELSE LET shorter == PathsFrom(L, b, k - 1)
             steps == {pe \in shorter \X L :
                         /\ pe[2].s = pe[1][Len(pe[1])].r
                         /\ pe[2] \notin EdgesOf(pe[1])}
         IN {Append(pe[1], pe[2]) : pe \in steps}

\* length(path) of every path = (b)-[:TRANSACTION*1..4]->(a)
PathLens(L, a, b) ==
    {k \in MinHops..MaxHops : \E p \in PathsFrom(L, b, k) : p[k].r = a}

\* the alert text reports record['path_len'] + 1
CycleLengthRaw(pathLen) == pathLen
CycleLength(pathLen) == pathLen + 1

\* detect_circular_flow: LIMIT 1 keeps one of the paths, whichever the
\* store finds first
DetectCircularFlow(txId) ==
    /\ LET lens == UNION {PathLens(ledger, t.s, t.r) :
                            t \in {c \in ledger : c.id = txId}} IN
       IF lens # {}
       THEN \E k \in lens :
              alert' = [op |-> "circular", tx |-> txId, minSenders |-> 0,
                        window |-> 0, fired |-> TRUE, n |-> CycleLength(k)]
       ELSE alert' = [op |-> "circular", tx |-> txId, minSenders |-> 0,
                      window |-> 0, fired |-> FALSE, n |-> 0]
    /\ UNCHANGED <<ledger, enginevars>>

(***************************************************************************)
(* Specifications                                                          *)
(***************************************************************************)
\* the store before the pipeline has ever run; the projection of an
\* earlier process may or may not be in the catalog
InitStore ==
    /\ communityId = [n \in Clients |-> Null]
    /\ rankScore = [n \in Clients |-> Null]
    /\ pagerankScore = [n \in Clients |-> Null]
    /\ catalog \in {0, 1}

InitWorkers ==
    /\ pc = [w \in Workers |-> "idle"]
    /\ run = [w \in Workers |-> 0]
    /\ held = [w \in Workers |-> NoHeld]
    /\ resp = [w \in Workers |-> NoResp]
    /\ runs = 0
    /\ epoch = 0

InitDetectors ==
    /\ ledger = {}
    /\ alert = NoAlert

Init ==
    /\ isFraud = [t \in TxIds |-> IF t = "t1" THEN IntV(1) ELSE IntV(0)]
    /\ ruleFlagged = [t \in TxIds |-> Null]
    /\ InitStore
    /\ InitWorkers
    /\ InitDetectors

\* R: the workers that serve reads; P: those that serve POST /run-gds
NextOf(R, P) ==
    \/ \E w \in P : DropStep(w)
    \/ \E w \in P : CreateStep(w)
    \/ \E w \in P : LouvainStep(w)
    \/ \E w \in P : PageRankStep(w)
    \/ \E w \in R, t \in QueryIds : GetGdsScores(w, t)
    \/ \E w \in R, t \in QueryIds : ExplainLookup(w, t)
    \/ \E w \in R : ExplainScores(w)

Next == NextOf(Workers, Workers)

Spec == Init /\ [][Next]_vars

\* explain_fraud over every combination of the two flags of "t1"
InitExplain ==
    /\ isFraud \in [TxIds -> IsFraudValues]
    /\ ruleFlagged \in [TxIds -> RuleFlagValues]
    /\ isFraud["t2"] \in {IntV(0), IntV(1)}
    /\ ruleFlagged["t2"] = Null
    /\ InitStore
    /\ InitWorkers
    /\ InitDetectors

\* every worker serves GET /investigation/{id}, "w2" also POST /run-gds
NextExplain ==
    \/ \E w \in {"w2"} : DropStep(w)
    \/ \E w \in {"w2"} : CreateStep(w)
    \/ \E w \in {"w2"} : LouvainStep(w)
    \/ \E w \in {"w2"} : PageRankStep(w)
    \/ \E w \in Workers, t \in QueryIds : ExplainLookup(w, t)
    \/ \E w \in Workers : ExplainScores(w)

SpecExplain == InitExplain /\ [][NextExplain]_vars

\* the Account/TRANSACTION edges the fan-in runs may hold: six senders into
\* "R" around t0 = 100, a second edge of sender "S1", edges on and beyond
\* both ends of the default window, one into another receiver, one without
\* a timestamp
FanInEdges ==
    { [id |-> "f1", s |-> "S1", r |-> "R", ts |-> Minutes(100)],
      [id |-> "f2", s |-> "S2", r |-> "R", ts |-> Minutes(100)],
      [id |-> "f3", s |-> "S3", r |-> "R", ts |-> Minutes(40)],
      [id |-> "f4", s |-> "S4", r |-> "R", ts |-> Minutes(70)],
      [id |-> "f5", s |-> "S5", r |-> "R", ts |-> Minutes(99)],
      [id |-> "f6", s |-> "S6", r |-> "R", ts |-> Minutes(100)],
      [id |-> "f7", s |-> "S1", r |-> "R", ts |-> Minutes(90)],
      [id |-> "f8", s |-> "S6", r |-> "R", ts |-> Minutes(39)],
      [id |-> "f9", s |-> "S5", r |-> "R", ts |-> Minutes(101)],
      [id |-> "f10", s |-> "S4", r |-> "Q", ts |-> Minutes(100)],
      [id |-> "f11", s |-> "S3", r |-> "R", ts |-> Null] }

InitEngine ==
    /\ isFraud = [t \in TxIds |-> IF t = "t1" THEN IntV(1) ELSE IntV(0)]
    /\ ruleFlagged = [t \in TxIds |-> Null]
    /\ InitStore
    /\ catalog = 0
    /\ InitWorkers

InitFanIn ==
    /\ InitEngine
    /\ ledger \in SUBSET FanInEdges
    /\ alert = NoAlert

FanInQueryIds == {"f0", "f1", "f3", "f9", "f11"}

NextFanIn ==
    \E txId \in FanInQueryIds,
       m \in {DefaultMinSenders, DefaultMinSenders - 1},
       w \in {DefaultTimeWindow, 0} :
      DetectFanIn(txId, m, w)

SpecFanIn == InitFanIn /\ [][NextFanIn]_vars

\* the edges the circular-flow runs may hold, over accounts A..F
CycleEdges ==
    { [id |-> "e1", s |-> "A", r |-> "B", ts |-> Null],
      [id |-> "e2", s |-> "B", r |-> "C", ts |-> Null],
      [id |-> "e3", s |-> "C", r |-> "A", ts |-> Null],
      [id |-> "e4", s |-> "C", r |-> "D", ts |-> Null],
      [id |-> "e5", s |-> "D", r |-> "E", ts |-> Null],
      [id |-> "e6", s |-> "E", r |-> "A", ts |-> Null],
      [id |-> "e7", s |-> "E", r |-> "F", ts |-> Null],
      [id |-> "e8", s |-> "F", r |-> "A", ts |-> Null],
      [id |-> "e9", s |-> "B", r |-> "A", ts |-> Null],
      [id |-> "e10", s |-> "A", r |-> "A", ts |-> Null],
      [id |-> "e11", s |-> "D", r |-> "C", ts |-> Null] }

InitCycle ==
    /\ InitEngine
    /\ ledger \in SUBSET CycleEdges
    /\ alert = NoAlert

CycleQueryIds == {"e0", "e1", "e2", "e4", "e10"}

NextCycle == \E txId \in CycleQueryIds : DetectCircularFlow(txId)

SpecCycle == InitCycle /\ [][NextCycle]_vars

\* runs one after the other: a run starts only when none is in flight
NoRunInFlight == \A w \in Workers : pc[w] \notin {"create", "louvain", "pagerank"}

NextSeq ==
    \/ \E w \in Workers : NoRunInFlight /\ DropStep(w)
    \/ \E w \in Workers : CreateStep(w)
    \/ \E w \in Workers : LouvainStep(w)
    \/ \E w \in Workers : PageRankStep(w)
    \/ \E w \in Workers, t \in QueryIds : GetGdsScores(w, t)
    \/ \E w \in Workers, t \in QueryIds : ExplainLookup(w, t)
    \/ \E w \in Workers : ExplainScores(w)

SpecSeq == Init /\ [][NextSeq]_vars

(***************************************************************************)
(* Properties                                                              *)
(***************************************************************************)
\* a flag of a transaction is set: the integer 1 or the boolean true
FlagIsSet(v) == v = IntV(1) \/ v = BoolV(TRUE)

\* a finished explain_fraud call on an edge that exists
Explained(w) == resp[w].op = "explain" /\ resp[w].tx \in TxIds

\* C1: explain_fraud on a transaction that exists returns FRAUD exactly when
\* its isFraud flag or its ruleFlaggedFraud flag is set and CLEARED
\* otherwise, whatever the scores and the other edge are; two calls on the
\* same transaction with no write in between or during them return the same
\* result.
C1_VerdictFromFlags ==
    /\ \A w \in Workers :
         Explained(w) =>
           resp[w].status =
             IF FlagIsSet(isFraud[resp[w].tx]) \/ FlagIsSet(ruleFlagged[resp[w].tx])
             THEN "FRAUD" ELSE "CLEARED"
    /\ \A w, v \in Workers :
         ( /\ Explained(w) /\ Explained(v)
           /\ resp[w].tx = resp[v].tx
           /\ resp[w].e1 = resp[w].e2 /\ resp[v].e1 = resp[v].e2
           /\ resp[w].e1 = resp[v].e1 )
         => resp[w] = resp[v]

\* two workers hold the same FRAUD result for "t1", decided by the rule flag
\* alone, read after the pipeline wrote community ids
C1_Witness ==
    /\ Explained("w1") /\ Explained("w2")
    /\ resp["w1"].tx = "t1" /\ resp["w2"].tx = "t1"
    /\ resp["w1"].status = "FRAUD"
    /\ ~FlagIsSet(isFraud["t1"]) /\ isFraud["t2"] = IntV(0)
    /\ resp["w1"].e1 = resp["w1"].e2 /\ resp["w2"].e1 = resp["w2"].e2
    /\ resp["w1"].e1 = resp["w2"].e1
    /\ Get(resp["w1"].gds, "sender_community") # Null

\* C2: explain_fraud on an identifier that matches no edge returns
\* NOT_FOUND with the fixed explanation and an empty gds_scores block, and
\* makes no score lookup.
C2_NotFound ==
    \A w \in Workers :
      (resp[w].op = "explain" /\ resp[w].tx \notin TxIds) =>
        /\ resp[w].status = "NOT_FOUND"
        /\ resp[w].explanation = "Transaction ID not found in graph."
        /\ resp[w].gds = {}
        /\ resp[w].lookups = 0

C2_Witness ==
    /\ resp["w1"].op = "explain" /\ resp["w1"].tx = "t9"
    /\ resp["w1"].status = "NOT_FOUND"
    /\ communityId["c1"] # Null

\* a finished get_gds_scores call that no write has followed
FreshScores(w) == resp[w].op = "scores" /\ resp[w].e1 = epoch

\* C3: while no node carries a rank score (the pipeline never ran, or a run
\* stopped after writing communityId), get_gds_scores returns the sentinel
\* for every identifier, of an edge that exists or not.
C3_SentinelWithoutScores ==
    \A w \in Workers :
      ( /\ FreshScores(w)
        /\ \A n \in Clients : rankScore[n] = Null /\ pagerankScore[n] = Null )
      => resp[w].gds = Sentinel

\* C4: after a run that succeeded, and with no later write, get_gds_scores
\* on an edge that exists returns the rankScore and the communityId the
\* pipeline wrote on its two endpoints.
C4_ScoresAfterRun ==
    \A w, v \in Workers :
      ( /\ FreshScores(w) /\ resp[w].tx \in TxIds
        /\ resp[v].op = "run" /\ resp[v].status = "success"
        /\ resp[v].e2 = epoch )
      => /\ Get(resp[w].gds, "sender_rank") = rankScore[Sender(resp[w].tx)]
         /\ Get(resp[w].gds, "receiver_rank") = rankScore[Receiver(resp[w].tx)]
         /\ Get(resp[w].gds, "sender_community") = communityId[Sender(resp[w].tx)]
         /\ Get(resp[w].gds, "receiver_community") = communityId[Receiver(resp[w].tx)]

\* the scores of one endpoint are those of before any run or those of one
\* whole run
Untorn(community, rank) ==
    \/ community = Null /\ rank = Null
    \/ \E r \in 1..MaxRuns : community = CommunityOf(r) /\ rank = RankOf(r)

\* C5: a read never returns a torn write: the scores it returns are all
\* from before the run or all from after both of its write phases, never a
\* new communityId with an old or missing rank score.
C5_NoTornRead ==
    \A w \in Workers :
      (resp[w].op \in {"scores", "explain"} /\ resp[w].tx \in TxIds) =>
        /\ Untorn(Get(resp[w].gds, "sender_community"),
                  Get(resp[w].gds, "sender_rank"))
        /\ Untorn(Get(resp[w].gds, "receiver_community"),
                  Get(resp[w].gds, "receiver_rank"))

\* C6: a run that failed left no communityId of its own on a node whose
\* rank score is not of the same run.
C6_NoPartialCommit ==
    \A w \in Workers :
      (resp[w].op = "run" /\ resp[w].status = "error") =>
        \A n \in Clients :
          communityId[n] = CommunityOf(resp[w].run)
            => rankScore[n] = RankOf(resp[w].run)

\* C7: at most one run is between its drop and its final rank write.
C7_OneRunInFlight ==
    Cardinality({w \in Workers : pc[w] \in {"create", "louvain", "pagerank"}}) <= 1

\* C8: runs made one after the other, with or without a projection left
\* from before: the catalog never holds two projections of the name; the
\* drop finds the projection missing without failing and the create never
\* meets a projection of the name; the projection exists while the run's
\* algorithms execute, and exactly one exists after the last run when it
\* succeeded.
C8_ProjectionIdempotent ==
    /\ catalog <= 1
    /\ \A w \in Workers :
         /\ resp[w].op = "run" => resp[w].cause \notin {"missing", "exists"}
         /\ pc[w] = "create" => catalog = 0
         /\ pc[w] \in {"louvain", "pagerank"} => catalog = 1
         /\ ( resp[w].op = "run" /\ resp[w].status = "success"
              /\ resp[w].run = runs ) => catalog = 1

\* two runs succeeded one after the other and one projection exists
C8_Witness ==
    /\ runs = 2
    /\ resp["w1"].op = "run" /\ resp["w1"].status = "success" /\ resp["w1"].run = 1
    /\ resp["w2"].op = "run" /\ resp["w2"].status = "success" /\ resp["w2"].run = 2
    /\ catalog = 1

\* the distinct senders of the edges into the receiver of `cur` whose
\* timestamp lies in [t0 - w, t0], t0 the timestamp of `cur`
SendersInWindow(L, cur, w) ==
    {t.s : t \in {x \in L : /\ x.r = cur.r
                            /\ x.ts # Null /\ cur.ts # Null
                            /\ x.ts[2] >= cur.ts[2] - w
                            /\ x.ts[2] <= cur.ts[2]}}

SixSenders == {e \in FanInEdges : e.id \in {"f1", "f2", "f3", "f4", "f5", "f6"}}
FiveSenders == {e \in FanInEdges : e.id \in {"f1", "f2", "f3", "f4", "f5", "f7"}}

\* C9: detect_fan_in returns an alert exactly when the distinct senders
\* into the queried transaction's receiver within [t0 - window, t0] number
\* strictly more than min_senders, and the alert carries that number; six
\* senders against min_senders = 5 fire with 6, five senders (one of them
\* twice) do not.
C9_FanIn ==
    alert.op = "fan_in" =>
      /\ IF \E cur \in ledger : cur.id = alert.tx
         THEN LET cur == CHOOSE c \in ledger : c.id = alert.tx
                  n == Cardinality(SendersInWindow(ledger, cur, alert.window))
              IN /\ alert.fired <=> n > alert.minSenders
                 /\ alert.fired => alert.n = n
         ELSE ~alert.fired
      /\ (alert.tx = "f1" /\ alert.minSenders = 5 /\ alert.window = 60) =>
           /\ ledger = SixSenders => alert.fired /\ alert.n = 6
           /\ ledger = FiveSenders => ~alert.fired

C9_Witness ==
    /\ ledger = SixSenders \cup {e \in FanInEdges : e.id \in {"f7", "f8", "f9"}}
    /\ alert.op = "fan_in" /\ alert.tx = "f1"
    /\ alert.minSenders = 5 /\ alert.window = 60
    /\ alert.fired /\ alert.n = 6

\* the accounts k edges away from b
RECURSIVE ReachedIn(_, _, _)
ReachedIn(L, b, k) ==
    IF k = 0 THEN {b}
    ELSE {e.r : e \in {x \in L : x.s \in ReachedIn(L, b, k - 1)}}

\* C10: detect_circular_flow on a -> b returns an alert exactly when 1 to 4
\* edges lead from b back to a, and reports the number of edges of such a
\* way back plus 1; A->B, B->C, C->A reports 3, A->B alone reports nothing.
C10_CircularFlow ==
    alert.op = "circular" =>
      /\ IF \E cur \in ledger : cur.id = alert.tx
         THEN LET cur == CHOOSE c \in ledger : c.id = alert.tx
                  lens == {k \in 1..4 : cur.s \in ReachedIn(ledger, cur.r, k)}
              IN /\ alert.fired <=> lens # {}
                 /\ alert.fired => (alert.n - 1) \in lens
         ELSE ~alert.fired
      /\ alert.tx = "e1" =>
           /\ {e.id : e \in ledger} = {"e1", "e2", "e3"} =>
                alert.fired /\ alert.n = 3
           /\ {e.id : e \in ledger} = {"e1"} => ~alert.fired

C10_Witness ==
    /\ {e.id : e \in ledger} = {"e1", "e2", "e3"}
    /\ alert.op = "circular" /\ alert.tx = "e1"
    /\ alert.fired /\ alert.n = 3

====
